---- MODULE Spec2Model ----
(***************************************************************************)
(* Habit streak engine of habits-tracker-tg: the check-in state machine    *)
(* (RecordHabitCheckUseCase), the key-value repository it writes through   *)
(* (VercelKVHabitRepository), the badge detector (HabitBadges) and the     *)
(* history reconstruction (HabitAnalytics.computeCheckHistory).            *)
(*                                                                         *)
(* Calendar days are integers: day d is the d-th UTC date after the day    *)
(* the habit was created.  The process runs with a UTC clock, so the       *)
(* local-midnight arithmetic of Date.setHours / Date.setDate and the UTC   *)
(* date string of toISOString().split('T')[0] name the same day.           *)
(*                                                                         *)
(* kv holds the user:<id>:habits keys of the store and prefs the           *)
(* user:<id>:preferences keys; last is the record of the latest call and   *)
(* procs the position and locals of each check-in request in flight.       *)
(***************************************************************************)
EXTENDS Integers, Sequences, FiniteSets, TLC

VARIABLES kv, clock, last, run, procs, prefs

vars == <<kv, clock, last, run, procs, prefs>>

\* ------------------------------------------------------------------ bounds
MaxDay == 6

\* --------------------------------------------------------------- constants
Null == "null"
NoDate == -9
Users == {1}
HabitIds == {"h1"}

BADGE_MILESTONES == <<5, 10, 30, 90>>

DailySchedule == [type |-> "daily", hour |-> 22, minute |-> 0, timezone |-> "UTC"]
WeeklySchedule == [type |-> "weekly", daysOfWeek |-> <<1, 5>>, hour |-> 18, minute |-> 0, timezone |-> "UTC"]

\* ----------------------------------------------------------------- helpers
Field(r, f, default) == IF f \in DOMAIN r THEN r[f] ELSE default

\* { ...habit, ...updates }
Spread(habit, updates) ==
  [f \in DOMAIN habit \cup DOMAIN updates |->
     IF f \in DOMAIN updates THEN updates[f] ELSE habit[f]]

\* habits.find(h => h.id === habitId) / findIndex: 0 when absent
FindIndex(habits, habitId) ==
  IF \E i \in DOMAIN habits : habits[i].id = habitId
  THEN CHOOSE i \in DOMAIN habits :
         /\ habits[i].id = habitId
         /\ \A j \in DOMAIN habits : habits[j].id = habitId => i <= j
  ELSE 0

\* ------------------------------------------------------------- repository
NewHabit(userId, habitId, today) ==
  [id |-> habitId, userId |-> userId, streak |-> 0, createdAt |-> today,
   lastCheckedDate |-> NoDate, skipped |-> <<>>, dropped |-> <<>>,
   checked |-> <<>>, reminderSchedule |-> DailySchedule,
   reminderEnabled |-> TRUE]

MigrateHabit(habit) ==
  Spread(habit,
    [skipped |-> Field(habit, "skipped", <<>>),
     dropped |-> Field(habit, "dropped", <<>>),
     checked |-> Field(habit, "checked", <<>>),
     badges |-> Field(habit, "badges", <<>>),
     reminderSchedule |-> Field(habit, "reminderSchedule", DailySchedule),
     reminderEnabled |-> (Field(habit, "reminderEnabled", TRUE) # FALSE),
     disabled |-> (Field(habit, "disabled", FALSE) = TRUE)])

\* kv.get answers null for a key that was never set
GetUserHabits(store, userId) ==
  IF userId \notin DOMAIN store THEN Null
  ELSE [store[userId] EXCEPT
          !.habits = [i \in DOMAIN store[userId].habits |->
                        MigrateHabit(store[userId].habits[i])]]

SaveUserHabits(store, userHabits) ==
  [u \in DOMAIN store \cup {userHabits.userId} |->
     IF u = userHabits.userId THEN userHabits ELSE store[u]]

\* the updates are spread over every habit of the record
UpdateHabit_EveryHabit(store, userId, habitId, updates) ==
  LET userHabits == GetUserHabits(store, userId)
  IN SaveUserHabits(store,
       [userHabits EXCEPT !.habits =
          [i \in DOMAIN userHabits.habits |-> Spread(userHabits.habits[i], updates)]])

\* updateHabit on a record that holds the habit (its callers have found it)
UpdateHabit(store, userId, habitId, updates) ==
  LET userHabits == GetUserHabits(store, userId)
      habitIndex == FindIndex(userHabits.habits, habitId)
  IN SaveUserHabits(store,
       [userHabits EXCEPT !.habits[habitIndex] = Spread(@, updates)])

FindHabit(store, userId, habitId) ==
  LET userHabits == GetUserHabits(store, userId)
  IN userHabits.habits[FindIndex(userHabits.habits, habitId)]

HasHabit(store, userId, habitId) ==
  /\ userId \in DOMAIN store
  /\ FindIndex(GetUserHabits(store, userId).habits, habitId) # 0

\* ------------------------------------------------------------------ badges
BadgeTypes(badges) == {badges[i].type : i \in DOMAIN badges}

\* a milestone is earned only once the streak has passed it
checkForNewBadges_Strict(currentStreak, existingBadges) ==
  SelectSeq(BADGE_MILESTONES,
    LAMBDA milestone : currentStreak > milestone
                       /\ milestone \notin BadgeTypes(existingBadges))

checkForNewBadges(currentStreak, existingBadges) ==
  SelectSeq(BADGE_MILESTONES,
    LAMBDA milestone : currentStreak >= milestone
                       /\ milestone \notin BadgeTypes(existingBadges))

RECURSIVE SortBadges(_)
SortBadges(badges) ==
  IF badges = <<>> THEN <<>>
  ELSE LET i == CHOOSE k \in DOMAIN badges :
                  \A j \in DOMAIN badges :
                     \/ badges[k].type < badges[j].type
                     \/ (badges[k].type = badges[j].type /\ k <= j)
           rest == [k \in 1..(Len(badges) - 1) |->
                      IF k < i THEN badges[k] ELSE badges[k + 1]]
       IN <<badges[i]>> \o SortBadges(rest)

awardBadge(badgeType, existingBadges, today) ==
  IF \E i \in DOMAIN existingBadges : existingBadges[i].type = badgeType
  THEN existingBadges
  ELSE SortBadges(Append(existingBadges, [type |-> badgeType, earnedAt |-> today]))

RECURSIVE awardBadges(_, _, _)
awardBadges(badgeTypes, existingBadges, today) ==
  IF badgeTypes = <<>> THEN existingBadges
  ELSE awardBadges(Tail(badgeTypes),
                   awardBadge(Head(badgeTypes), existingBadges, today), today)

\* ----------------------------------------------------- check-in state machine
IsDaily(habit) ==
  \/ "reminderSchedule" \notin DOMAIN habit
  \/ habit.reminderSchedule.type = "daily"

Yesterday(today) == today - 1

\* the guard compared with the wrong day
AlreadyCheckedToday_Yesterday(habit, today) ==
  habit.lastCheckedDate = Yesterday(today)

\* no guard at all
AlreadyCheckedToday_Never(habit, today) == FALSE

AlreadyCheckedToday(habit, today) == habit.lastCheckedDate = today

\* continuation tested against today instead of yesterday
CompletedStreak_NoContinuation(habit, today) ==
  IF habit.lastCheckedDate = NoDate THEN 1
  ELSE IF habit.lastCheckedDate = today THEN habit.streak + 1
  ELSE 1

\* a gap that does not break the streak
CompletedStreak_NoGapReset(habit, today) ==
  IF habit.lastCheckedDate = NoDate THEN 1
  ELSE habit.streak + 1

CompletedStreak(habit, today) ==
  IF habit.lastCheckedDate = NoDate THEN 1
  ELSE IF habit.lastCheckedDate = Yesterday(today) THEN habit.streak + 1
  ELSE IF habit.lastCheckedDate = today THEN habit.streak
  ELSE 1

\* the date is recorded whatever the schedule type
CompletedChecked_AnySchedule(habit, today) ==
  IF ~(\E i \in DOMAIN habit.checked : habit.checked[i].date = today)
  THEN Append(habit.checked, [date |-> today])
  ELSE habit.checked

CompletedChecked(habit, today) ==
  IF ~IsDaily(habit) /\ ~(\E i \in DOMAIN habit.checked : habit.checked[i].date = today)
  THEN Append(habit.checked, [date |-> today])
  ELSE habit.checked

\* milestones tested against the streak before the check-in
CompletedBadges_OldStreak(habit, newStreak, today) ==
  LET newBadgeTypes == checkForNewBadges(habit.streak, habit.badges)
  IN IF Len(newBadgeTypes) > 0
     THEN awardBadges(newBadgeTypes, habit.badges, today)
     ELSE habit.badges

CompletedBadges(habit, newStreak, today) ==
  LET newBadgeTypes == checkForNewBadges(newStreak, habit.badges)
  IN IF Len(newBadgeTypes) > 0
     THEN awardBadges(newBadgeTypes, habit.badges, today)
     ELSE habit.badges

CompletedUpdates(habit, today) ==
  [streak |-> CompletedStreak(habit, today),
   lastCheckedDate |-> today,
   skipped |-> habit.skipped,
   checked |-> CompletedChecked(habit, today),
   badges |-> CompletedBadges(habit, CompletedStreak(habit, today), today)]

\* the streak survives the drop
DroppedUpdates_StreakKept(habit, today) ==
  [streak |-> habit.streak,
   lastCheckedDate |-> today,
   skipped |-> <<>>,
   dropped |-> Append(habit.dropped,
                 [streakBeforeDrop |-> habit.streak, date |-> today]),
   badges |-> habit.badges]

\* skipped is carried over, as in the completed branch
DroppedUpdates_KeepsSkipped(habit, today) ==
  [streak |-> 0,
   lastCheckedDate |-> today,
   skipped |-> habit.skipped,
   dropped |-> Append(habit.dropped,
                 [streakBeforeDrop |-> habit.streak, date |-> today]),
   badges |-> habit.badges]

\* the drop records the streak after the reset
DroppedUpdates_RecordsNewStreak(habit, today) ==
  [streak |-> 0,
   lastCheckedDate |-> today,
   skipped |-> <<>>,
   dropped |-> Append(habit.dropped,
                 [streakBeforeDrop |-> 0, date |-> today]),
   badges |-> habit.badges]

\* the drop takes one day off the streak
DroppedUpdates_Decrement(habit, today) ==
  [streak |-> habit.streak - 1,
   lastCheckedDate |-> today,
   skipped |-> <<>>,
   dropped |-> Append(habit.dropped,
                 [streakBeforeDrop |-> habit.streak, date |-> today]),
   badges |-> habit.badges]

\* the drop takes the badges with the streak
DroppedUpdates_ClearsBadges(habit, today) ==
  [streak |-> 0,
   lastCheckedDate |-> today,
   skipped |-> <<>>,
   dropped |-> Append(habit.dropped,
                 [streakBeforeDrop |-> habit.streak, date |-> today]),
   badges |-> <<>>]

DroppedUpdates(habit, today) ==
  [streak |-> 0,
   lastCheckedDate |-> today,
   skipped |-> <<>>,
   dropped |-> Append(habit.dropped,
                 [streakBeforeDrop |-> habit.streak, date |-> today]),
   badges |-> habit.badges]

\* a skip that resets the streak like a drop
SkippedUpdates_ResetsStreak(habit, today) ==
  [streak |-> 0,
   skipped |-> Append(habit.skipped,
                 [skippedDay |-> habit.streak, date |-> today]),
   lastCheckedDate |-> today]

SkippedUpdates(habit, today) ==
  [skipped |-> Append(habit.skipped,
                 [skippedDay |-> habit.streak, date |-> today]),
   lastCheckedDate |-> today]

\* ------------------------------------------------- history reconstruction
SkippedDates(habit) == {habit.skipped[i].date : i \in DOMAIN habit.skipped}

DroppedDateSet(habit) == {habit.dropped[i].date : i \in DOMAIN habit.dropped}

\* droppedDates.get(date): Map.set keeps the last entry written for a date
DropOn(habit, date) ==
  habit.dropped[CHOOSE i \in DOMAIN habit.dropped :
                  /\ habit.dropped[i].date = date
                  /\ \A j \in DOMAIN habit.dropped :
                       habit.dropped[j].date = date => j <= i]

DroppedEntry(habit, date) ==
  [date |-> date, type |-> "dropped", streak |-> 0,
   streakBefore |-> DropOn(habit, date).streakBeforeDrop]

SkippedEntry(date, streak) ==
  [date |-> date, type |-> "skipped", streak |-> streak]

CompletedEntry(date, streak) ==
  [date |-> date, type |-> "completed", streak |-> streak]

\* the loop of the branch that infers nothing: explicit skips and drops only
RECURSIVE ExplicitEvents(_, _, _)
ExplicitEvents(habit, currentDate, today) ==
  IF currentDate > today THEN <<>>
  ELSE (IF currentDate \in DroppedDateSet(habit)
          THEN <<DroppedEntry(habit, currentDate)>>
        ELSE IF currentDate \in SkippedDates(habit)
          THEN <<SkippedEntry(currentDate, 0)>>
        ELSE <<>>)
       \o ExplicitEvents(habit, currentDate + 1, today)

\* the latest drop date in creationDate..today, NoDate when there is none
MostRecentDropDate(habit, creationDate, today) ==
  LET ds == {d \in DroppedDateSet(habit) : creationDate <= d /\ d <= today}
  IN IF ds = {} THEN NoDate
     ELSE CHOOSE d \in ds : \A e \in ds : e <= d

\* backward from today: the most recent `remaining` days that are neither
\* skipped nor dropped, stopping at a drop
RECURSIVE RecentCompletions(_, _, _, _, _)
RecentCompletions(habit, creationDate, mostRecentDropDate, workDate, remaining) ==
  IF ~(workDate >= creationDate /\ remaining > 0) THEN {}
  ELSE IF workDate \in DroppedDateSet(habit) THEN {}
  ELSE IF workDate \in SkippedDates(habit)
    THEN RecentCompletions(habit, creationDate, mostRecentDropDate,
                           workDate - 1, remaining)
  ELSE IF mostRecentDropDate # NoDate /\ workDate <= mostRecentDropDate THEN {}
  ELSE {workDate} \cup RecentCompletions(habit, creationDate, mostRecentDropDate,
                                         workDate - 1, remaining - 1)

\* backward from the day before a drop: streakBeforeDrop days, passing over
\* skipped and dropped days
RECURSIVE PreDropCompletions(_, _, _, _)
PreDropCompletions(habit, creationDate, preDropWorkDate, preDropCompletions) ==
  IF ~(preDropWorkDate >= creationDate /\ preDropCompletions > 0) THEN {}
  ELSE IF preDropWorkDate \in DroppedDateSet(habit)
          \/ preDropWorkDate \in SkippedDates(habit)
    THEN PreDropCompletions(habit, creationDate, preDropWorkDate - 1,
                            preDropCompletions)
  ELSE {preDropWorkDate} \cup PreDropCompletions(habit, creationDate,
                                preDropWorkDate - 1, preDropCompletions - 1)

\* nothing is inferred before a drop
AllPreDropCompletions_None(habit, creationDate) == {}

\* the loop over dropEntries: each drop adds its own days to completedDates
AllPreDropCompletions(habit, creationDate) ==
  UNION {IF DropOn(habit, d).streakBeforeDrop > 0
         THEN PreDropCompletions(habit, creationDate, d - 1,
                                 DropOn(habit, d).streakBeforeDrop)
         ELSE {} : d \in DroppedDateSet(habit)}

CompletedDates(habit, creationDate, today) ==
  RecentCompletions(habit, creationDate,
                    MostRecentDropDate(habit, creationDate, today),
                    today, habit.streak)
  \cup AllPreDropCompletions(habit, creationDate)

\* forward replay from creationDate to today
RECURSIVE Replay(_, _, _, _, _)
Replay(habit, completedDates, currentDate, today, currentStreak) ==
  IF currentDate > today THEN <<>>
  ELSE IF currentDate \in DroppedDateSet(habit)
    THEN <<DroppedEntry(habit, currentDate)>>
         \o Replay(habit, completedDates, currentDate + 1, today, 0)
  ELSE IF currentDate \in SkippedDates(habit)
    THEN <<SkippedEntry(currentDate, currentStreak)>>
         \o Replay(habit, completedDates, currentDate + 1, today, currentStreak)
  ELSE IF currentDate \in completedDates
    THEN <<CompletedEntry(currentDate, currentStreak + 1)>>
         \o Replay(habit, completedDates, currentDate + 1, today, currentStreak + 1)
  ELSE Replay(habit, completedDates, currentDate + 1, today, currentStreak)

HasUserInteraction(habit) ==
  habit.streak > 0 \/ SkippedDates(habit) # {} \/ DroppedDateSet(habit) # {}

HasTargetStreak(habit) == habit.streak > 0

computeDailyHabitHistory(habit, creationDate, today) ==
  LET remindersEnabled == Field(habit, "reminderEnabled", TRUE) # FALSE
      notDisabled == Field(habit, "disabled", FALSE) # TRUE
      shouldInferCompletions ==
        remindersEnabled /\ notDisabled /\ HasUserInteraction(habit)
  IN IF ~shouldInferCompletions
       THEN ExplicitEvents(habit, creationDate, today)
     ELSE IF HasTargetStreak(habit)
       THEN Replay(habit, CompletedDates(habit, creationDate, today),
                   creationDate, today, 0)
     ELSE <<>>

CheckedDates(habit) == {habit.checked[i].date : i \in DOMAIN habit.checked}

\* the walk over sortedDates, ascending
RECURSIVE NonDailyWalk(_, _, _, _, _)
NonDailyWalk(habit, dates, creationDate, today, currentStreak) ==
  IF dates = {} THEN <<>>
  ELSE LET dateStr == CHOOSE d \in dates : \A e \in dates : d <= e
           rest == dates \ {dateStr}
       IN IF dateStr > today \/ dateStr < creationDate
            THEN NonDailyWalk(habit, rest, creationDate, today, currentStreak)
          ELSE IF dateStr \in DroppedDateSet(habit)
            THEN <<DroppedEntry(habit, dateStr)>>
                 \o NonDailyWalk(habit, rest, creationDate, today, 0)
          ELSE IF dateStr \in SkippedDates(habit)
            THEN <<SkippedEntry(dateStr, currentStreak)>>
                 \o NonDailyWalk(habit, rest, creationDate, today, currentStreak)
          ELSE IF dateStr \in CheckedDates(habit)
            THEN <<CompletedEntry(dateStr, currentStreak + 1)>>
                 \o NonDailyWalk(habit, rest, creationDate, today, currentStreak + 1)
          ELSE NonDailyWalk(habit, rest, creationDate, today, currentStreak)

computeNonDailyHabitHistory(habit, creationDate, today) ==
  NonDailyWalk(habit,
    CheckedDates(habit) \cup SkippedDates(habit) \cup DroppedDateSet(habit)
      \cup {creationDate},
    creationDate, today, 0)

\* computeCheckHistory(habit) evaluated on day `today`
computeCheckHistory(habit, today) ==
  IF IsDaily(habit)
  THEN computeDailyHabitHistory(habit, habit.createdAt, today)
  ELSE computeNonDailyHabitHistory(habit, habit.createdAt, today)

\* --------------------------------------------------------------- operations
NoOp == [op |-> "none"]

\* History of the check-ins that took effect, kept only while it has the shape
\* "n completions on n consecutive days" (phase completing), optionally
\* followed by one drop on the next day (phase dropped, on `day`).
RunOff == [phase |-> "off", n |-> 0, day |-> NoDate]

RunAfter(r, habit, today, outcome) ==
  IF r.phase = "completing" /\ outcome = "completed"
     /\ (r.n = 0 \/ habit.lastCheckedDate = today - 1)
    THEN [phase |-> "completing", n |-> r.n + 1, day |-> today]
  ELSE IF r.phase = "completing" /\ outcome = "dropped"
          /\ r.n > 0 /\ habit.lastCheckedDate = today - 1
    THEN [phase |-> "dropped", n |-> r.n, day |-> today]
  ELSE RunOff

\* the error thrown when the user has no record or the record has no such habit
NotFound(store, userId, habitId) ==
  IF userId \notin DOMAIN store THEN "User habits not found"
  ELSE IF FindIndex(GetUserHabits(store, userId).habits, habitId) = 0
    THEN "Habit not found"
  ELSE Null

\* a record is written for the user before the error is thrown
Rejected_WritesRecord(store, userId, habitId) ==
  SaveUserHabits(store,
    [userId |-> userId,
     habits |-> IF userId \in DOMAIN store
                THEN GetUserHabits(store, userId).habits ELSE <<>>])

\* the store after a check-in that throws: the throw comes before updateHabit
Rejected(store, userId, habitId) == store

\* RecordHabitCheckUseCase.execute: the not-found errors, the same-day guard,
\* the write through updateHabit, and the habit read back and returned.
Execute(userId, habitId, completed) ==
  LET habit == FindHabit(kv, userId, habitId)
      today == clock
      outcome == IF completed THEN "completed" ELSE "dropped"
      updates == IF completed THEN CompletedUpdates(habit, today)
                 ELSE DroppedUpdates(habit, today)
  IN /\ IF NotFound(kv, userId, habitId) # Null
        THEN /\ kv' = Rejected(kv, userId, habitId)
             /\ UNCHANGED run
             /\ last' = [op |-> "execute", outcome |-> outcome,
                         userId |-> userId, habitId |-> habitId,
                         today |-> today,
                         error |-> NotFound(kv, userId, habitId)]
        ELSE IF AlreadyCheckedToday(habit, today)
        THEN /\ UNCHANGED <<kv, run>>
             /\ last' = [op |-> "execute", outcome |-> outcome,
                         userId |-> userId, habitId |-> habitId,
                         today |-> today, habit |-> habit,
                         returned |-> habit, writes |-> 0]
        ELSE /\ kv' = UpdateHabit(kv, userId, habitId, updates)
             /\ run' = RunAfter(run, habit, today, outcome)
             /\ last' = [op |-> "execute", outcome |-> outcome,
                         userId |-> userId, habitId |-> habitId,
                         today |-> today, habit |-> habit,
                         returned |-> FindHabit(kv', userId, habitId),
                         writes |-> 1]
     /\ UNCHANGED <<clock, procs, prefs>>

\* RecordHabitCheckUseCase.skipHabit
SkipHabit(userId, habitId) ==
  LET habit == FindHabit(kv, userId, habitId)
      today == clock
  IN /\ IF NotFound(kv, userId, habitId) # Null
        THEN /\ kv' = Rejected(kv, userId, habitId)
             /\ UNCHANGED run
             /\ last' = [op |-> "skipHabit", outcome |-> "skipped",
                         userId |-> userId, habitId |-> habitId,
                         today |-> today,
                         error |-> NotFound(kv, userId, habitId)]
        ELSE IF AlreadyCheckedToday(habit, today)
        THEN /\ UNCHANGED <<kv, run>>
             /\ last' = [op |-> "skipHabit", outcome |-> "skipped",
                         userId |-> userId, habitId |-> habitId,
                         today |-> today, habit |-> habit,
                         returned |-> habit, writes |-> 0]
        ELSE /\ kv' = UpdateHabit(kv, userId, habitId, SkippedUpdates(habit, today))
             /\ run' = RunAfter(run, habit, today, "skipped")
             /\ last' = [op |-> "skipHabit", outcome |-> "skipped",
                         userId |-> userId, habitId |-> habitId,
                         today |-> today, habit |-> habit,
                         returned |-> FindHabit(kv', userId, habitId),
                         writes |-> 1]
     /\ UNCHANGED <<clock, procs, prefs>>

\* midnight UTC passes
Tick ==
  /\ clock < MaxDay
  /\ clock' = clock + 1
  /\ last' = NoOp
  /\ UNCHANGED <<kv, run, procs, prefs>>

\* a new schedule starts the streak afresh
SetSchedule_ResetsStreak(store, userId, habitId, schedule) ==
  UpdateHabit(store, userId, habitId,
    [reminderSchedule |-> schedule, reminderEnabled |-> TRUE, streak |-> 0])

\* SetHabitReminderScheduleUseCase.execute with a schedule that validates
SetSchedule(store, userId, habitId, schedule) ==
  UpdateHabit(store, userId, habitId,
    [reminderSchedule |-> schedule, reminderEnabled |-> TRUE])

\* no check-in request is in flight
Requests == {1, 2}

Idle == [pc |-> "idle"]

NoRequests == [p \in Requests |-> Idle]

\* no user has stored preferences
NoPreferences == <<>>

\* createHabit on day 0
Created ==
  [u \in Users |-> [userId |-> u, habits |-> <<NewHabit(u, "h1", 0)>>]]

\* a habit left with the daily schedule it is created with
Init ==
  /\ clock = 0
  /\ kv = Created
  /\ last = NoOp
  /\ run = [phase |-> "completing", n |-> 0, day |-> NoDate]
  /\ procs = NoRequests
  /\ prefs = NoPreferences

\* a habit given a weekly schedule before its first check-in
InitNonDaily ==
  /\ clock = 0
  /\ kv = SetSchedule(Created, 1, "h1", WeeklySchedule)
  /\ last = NoOp
  /\ run = [phase |-> "completing", n |-> 0, day |-> NoDate]
  /\ procs = NoRequests
  /\ prefs = NoPreferences

Next ==
  \/ \E userId \in Users, habitId \in HabitIds, completed \in BOOLEAN :
       Execute(userId, habitId, completed)
  \/ \E userId \in Users, habitId \in HabitIds : SkipHabit(userId, habitId)
  \/ Tick

Spec == Init /\ [][Next]_vars

SpecNonDaily == InitNonDaily /\ [][Next]_vars

\* ------------------------------------------------------------ the properties
\* the habit as a reader sees it, and its reconstructed history as of now
Stored == FindHabit(kv, 1, "h1")

History == computeCheckHistory(Stored, clock)

CheckedIn == last.op \in {"execute", "skipHabit"}

\* the last call was a check-in with this outcome that passed the same-day guard
TookEffect(outcome) ==
  CheckedIn /\ last.outcome = outcome /\ last.habit.lastCheckedDate # last.today

\* C1: a check-in on a habit whose lastCheckedDate is already today, whatever its
\* outcome, writes nothing and returns the habit unchanged, so the stored habit
\* after the second check-in of a day is the one the first left.
C1_SameDayNoOp ==
  (CheckedIn /\ last.habit.lastCheckedDate = last.today)
    => /\ last.writes = 0
       /\ last.returned = last.habit
       /\ Stored = last.habit

\* a drop attempted on a day already checked with another outcome
C1_Witness ==
  /\ CheckedIn
  /\ last.outcome = "dropped"
  /\ last.habit.lastCheckedDate = last.today
  /\ last.habit.streak >= 1

\* C2: for a daily habit with any check-in on record, the reconstructed history
\* as of any day on or after lastCheckedDate ends with an entry whose streak is
\* the stored streak.
C2_DailyFidelity ==
  (IsDaily(Stored) /\ Stored.lastCheckedDate # NoDate)
    => /\ History # <<>>
       /\ History[Len(History)].streak = Stored.streak

\* C3: for a non-daily habit with any check-in on record, the reconstructed
\* history ends with an entry whose streak is the stored streak.
C3_NonDailyFidelity ==
  (~IsDaily(Stored) /\ Stored.lastCheckedDate # NoDate)
    => /\ History # <<>>
       /\ History[Len(History)].streak = Stored.streak

\* C4: a daily habit created on day 0, completed on days 1 to 4 and dropped on
\* day 5 has, on day 5, the history completed(1), completed(2), completed(3),
\* completed(4), dropped(0, streakBefore 4).
C4_DropScenario ==
  (/\ IsDaily(Stored)
   /\ run = [phase |-> "dropped", n |-> 4, day |-> 5]
   /\ clock = 5)
    => History = <<CompletedEntry(1, 1), CompletedEntry(2, 2),
                   CompletedEntry(3, 3), CompletedEntry(4, 4),
                   [date |-> 5, type |-> "dropped", streak |-> 0,
                    streakBefore |-> 4]>>

\* C5: a completed check-in on a habit last checked the day before stores the
\* old streak plus one and today as lastCheckedDate.
C5_Continuation ==
  (/\ CheckedIn /\ last.outcome = "completed"
   /\ last.habit.lastCheckedDate = last.today - 1)
    => /\ Stored.streak = last.habit.streak + 1
       /\ Stored.lastCheckedDate = last.today
       /\ last.returned = Stored

C5_Witness ==
  /\ CheckedIn /\ last.outcome = "completed"
  /\ last.habit.lastCheckedDate = last.today - 1
  /\ last.habit.streak >= 2

\* C6 as stated: for every habit, execute with completed = false returns a habit
\* with streak 0 and the entry {streakBeforeDrop: old streak, date: today}
\* appended to dropped.
C6_DropAlwaysResets ==
  (CheckedIn /\ last.outcome = "dropped")
    => /\ last.returned.streak = 0
       /\ last.returned.dropped =
            Append(last.habit.dropped,
                   [streakBeforeDrop |-> last.habit.streak, date |-> last.today])

\* C6 amended: for every habit whose lastCheckedDate is not today, execute with
\* completed = false returns a habit with streak 0 and the entry
\* {streakBeforeDrop: old streak, date: today} appended to dropped.
C6_DropResets ==
  TookEffect("dropped")
    => /\ last.returned.streak = 0
       /\ last.returned.dropped =
            Append(last.habit.dropped,
                   [streakBeforeDrop |-> last.habit.streak, date |-> last.today])
       /\ Stored = last.returned

C6_Witness ==
  /\ TookEffect("dropped")
  /\ last.habit.streak >= 2
  /\ last.habit.dropped # <<>>

\* C7: a skip on a day not yet checked leaves the streak as it was, appends
\* {skippedDay: streak, date: today} to skipped and sets lastCheckedDate to today.
C7_SkipPreservesStreak ==
  TookEffect("skipped")
    => /\ Stored.streak = last.habit.streak
       /\ Stored.skipped =
            Append(last.habit.skipped,
                   [skippedDay |-> last.habit.streak, date |-> last.today])
       /\ Stored.lastCheckedDate = last.today

C7_Witness ==
  /\ TookEffect("skipped")
  /\ last.habit.streak >= 2
  /\ last.habit.skipped # <<>>

\* C8: a completed check-in on a habit never checked, or last checked two or
\* more days ago, stores streak 1 whatever the streak was, and leaves dropped
\* and skipped as they were.
C8_RestartAtOne ==
  (/\ CheckedIn /\ last.outcome = "completed"
   /\ \/ last.habit.lastCheckedDate = NoDate
      \/ last.habit.lastCheckedDate <= last.today - 2)
    => /\ Stored.streak = 1
       /\ Stored.dropped = last.habit.dropped
       /\ Stored.skipped = last.habit.skipped

\* a completion after a gap, on a habit with a streak, skips and drops on record
C8_Witness ==
  /\ CheckedIn /\ last.outcome = "completed"
  /\ last.habit.lastCheckedDate # NoDate
  /\ last.habit.lastCheckedDate <= last.today - 2
  /\ last.habit.streak >= 2
  /\ last.habit.skipped # <<>>
  /\ last.habit.dropped # <<>>

C10_RunThenDrop ==
  /\ run.phase = "completing" => Stored.streak = run.n
  /\ run.phase = "dropped"
       => /\ Stored.streak = 0
          /\ Stored.dropped = <<[streakBeforeDrop |-> run.n, date |-> run.day]>>

C10_Witness ==
  /\ run.phase = "dropped"
  /\ run.n = 4

\* C13: in every state reachable from creation by check-ins, the stored
\* habit.streak is an integer that is at least 0.
C13_StreakNonNegative == Stored.streak \in Nat

\* a drop has taken effect on a habit whose streak was already 0
C13_Witness ==
  /\ TookEffect("dropped")
  /\ last.habit.streak = 0
  /\ Stored.streak = 0

\* the badge types of the stored habit, and the milestones its streak has reached
StoredBadgeTypes == BadgeTypes(Stored.badges)

ReachedMilestones ==
  {BADGE_MILESTONES[i] : i \in {j \in DOMAIN BADGE_MILESTONES :
                                   BADGE_MILESTONES[j] <= Stored.streak}}

\* C15: in every reachable state every milestone that is at most habit.streak is
\* among the badge types of habit.badges, and no badge type occurs twice; in
\* particular this holds right after a completed check-in that took effect.
C15_MilestonesAwarded ==
  /\ ReachedMilestones \subseteq StoredBadgeTypes
  /\ Cardinality(StoredBadgeTypes) = Len(Stored.badges)

\* the completed check-in that brought the streak from 4 to 5
C15_Witness ==
  /\ TookEffect("completed")
  /\ last.habit.streak = 4
  /\ Stored.streak = 5
  /\ Stored.badges = <<[type |-> 5, earnedAt |-> last.today]>>

\* ------------------------------------------------- the badge detector alone
MaxStreak == 91

Milestones == {BADGE_MILESTONES[i] : i \in DOMAIN BADGE_MILESTONES}

\* a stored badge list holding these types, in the order awardBadge keeps
EarnedBadges(types) ==
  LET sorted == SelectSeq(BADGE_MILESTONES, LAMBDA m : m \in types)
  IN [i \in DOMAIN sorted |-> [type |-> sorted[i], earnedAt |-> 0]]

\* a call of checkForNewBadges
CheckForNewBadges(currentStreak, earned) ==
  /\ last' = [op |-> "checkForNewBadges", currentStreak |-> currentStreak,
              earned |-> earned,
              returned |-> checkForNewBadges(currentStreak, EarnedBadges(earned))]
  /\ UNCHANGED <<kv, clock, run, procs, prefs>>

NextBadges ==
  \E currentStreak \in 0..MaxStreak, earned \in SUBSET Milestones :
    CheckForNewBadges(currentStreak, earned)

SpecBadges == Init /\ [][NextBadges]_vars

BadgesChecked == last.op = "checkForNewBadges"

\* C14: checkForNewBadges(streak, earned) returns exactly the milestones among
\* 5, 10, 30, 90 that are at most streak and not among the earned types, in
\* ascending order; streak 30 with 5 and 10 earned gives <<30>>, and streak 30
\* with nothing earned gives <<5, 10, 30>>.
C14_NewBadges ==
  BadgesChecked =>
    /\ {last.returned[i] : i \in DOMAIN last.returned}
         = {m \in {5, 10, 30, 90} : m <= last.currentStreak /\ m \notin last.earned}
    /\ \A i, j \in DOMAIN last.returned : i < j => last.returned[i] < last.returned[j]
    /\ (last.currentStreak = 30 /\ last.earned = {5, 10}) => last.returned = <<30>>
    /\ (last.currentStreak = 30 /\ last.earned = {}) => last.returned = <<5, 10, 30>>

\* the call with streak 30 and the badges of 5 and 10 earned
C14_Witness ==
  /\ BadgesChecked
  /\ last.currentStreak = 30
  /\ last.earned = {5, 10}
  /\ last.returned = <<30>>

\* ------------------------------------- check-ins with schedule and toggle calls
\* an hour up to 24 is let through
validateSchedule_NoHourCeiling(schedule) ==
  IF schedule.hour < 0 \/ schedule.hour > 24
    THEN "Hour must be between 0 and 23"
  ELSE IF schedule.minute < 0 \/ schedule.minute > 59
    THEN "Minute must be between 0 and 59"
  ELSE Null

\* SetHabitReminderScheduleUseCase.validateSchedule: the message of the error it
\* throws, Null when it returns
validateSchedule(schedule) ==
  IF schedule.hour < 0 \/ schedule.hour > 23
    THEN "Hour must be between 0 and 23"
  ELSE IF schedule.minute < 0 \/ schedule.minute > 59
    THEN "Minute must be between 0 and 59"
  ELSE IF schedule.type = "weekly"
    THEN IF "daysOfWeek" \notin DOMAIN schedule \/ Len(schedule.daysOfWeek) = 0
           THEN "Weekly schedule must have at least one day of week"
         ELSE IF \E i \in DOMAIN schedule.daysOfWeek :
                   schedule.daysOfWeek[i] < 0 \/ schedule.daysOfWeek[i] > 6
           THEN "Days of week must be between 0 (Sunday) and 6 (Saturday)"
         ELSE Null
  ELSE IF schedule.type = "monthly"
    THEN IF "daysOfMonth" \notin DOMAIN schedule \/ Len(schedule.daysOfMonth) = 0
           THEN "Monthly schedule must have at least one day of month"
         ELSE IF \E i \in DOMAIN schedule.daysOfMonth :
                   schedule.daysOfMonth[i] < 1 \/ schedule.daysOfMonth[i] > 31
           THEN "Days of month must be between 1 and 31"
         ELSE Null
  ELSE IF schedule.type = "interval"
    THEN IF "intervalDays" \notin DOMAIN schedule \/ schedule.intervalDays = 0
            \/ schedule.intervalDays < 1
           THEN "Interval days must be at least 1"
         ELSE Null
  ELSE Null

\* SetHabitReminderScheduleUseCase.execute: validateSchedule, then the write
\* through updateHabit and the habit read back
SetReminderSchedule(userId, habitId, schedule) ==
  /\ HasHabit(kv, userId, habitId)
  /\ IF validateSchedule(schedule) # Null
     THEN /\ UNCHANGED kv
          /\ last' = [op |-> "setSchedule", userId |-> userId,
                      habitId |-> habitId, schedule |-> schedule,
                      error |-> validateSchedule(schedule)]
     ELSE /\ kv' = SetSchedule(kv, userId, habitId, schedule)
          /\ last' = [op |-> "setSchedule", userId |-> userId,
                      habitId |-> habitId, schedule |-> schedule,
                      returned |-> FindHabit(kv', userId, habitId)]
  /\ UNCHANGED <<clock, run, procs, prefs>>

\* SetHabitReminderScheduleUseCase.toggleReminder
ToggleReminder(userId, habitId, enabled) ==
  /\ HasHabit(kv, userId, habitId)
  /\ kv' = UpdateHabit(kv, userId, habitId, [reminderEnabled |-> enabled])
  /\ last' = [op |-> "toggleReminder", userId |-> userId, habitId |-> habitId,
              returned |-> FindHabit(kv', userId, habitId)]
  /\ UNCHANGED <<clock, run, procs, prefs>>

\* ToggleHabitDisabledUseCase.execute: the record is read, the habit's flag is
\* flipped in it and the whole record is saved
ToggleDisabled(userId, habitId) ==
  LET userHabits == GetUserHabits(kv, userId)
      habitIndex == FindIndex(userHabits.habits, habitId)
      habit == userHabits.habits[habitIndex]
  IN /\ HasHabit(kv, userId, habitId)
     /\ kv' = SaveUserHabits(kv,
                [userHabits EXCEPT !.habits[habitIndex] =
                   [habit EXCEPT !.disabled = ~habit.disabled]])
     /\ last' = [op |-> "toggleDisabled", userId |-> userId, habitId |-> habitId,
                 returned |-> ~habit.disabled]
     /\ UNCHANGED <<clock, run, procs, prefs>>

\* the store after a completed check-in on each of the days 0..day
RECURSIVE CompletedThrough(_)
CompletedThrough(day) ==
  IF day < 0 THEN Created
  ELSE LET store == CompletedThrough(day - 1)
       IN UpdateHabit(store, 1, "h1",
            CompletedUpdates(FindHabit(store, 1, "h1"), day))

\* the day on which a habit completed every day since creation earns its
\* first badge
FirstBadgeDay == BADGE_MILESTONES[1] - 1

\* the habit has been completed on each day up to its first badge
InitOps ==
  /\ clock = FirstBadgeDay
  /\ kv = CompletedThrough(FirstBadgeDay)
  /\ last = NoOp
  /\ run = RunOff
  /\ procs = NoRequests
  /\ prefs = NoPreferences

OpsSchedules == {DailySchedule, WeeklySchedule}

NextOps ==
  \/ \E userId \in Users, habitId \in HabitIds, completed \in BOOLEAN :
       Execute(userId, habitId, completed)
  \/ \E userId \in Users, habitId \in HabitIds : SkipHabit(userId, habitId)
  \/ Tick
  \/ \E userId \in Users, habitId \in HabitIds, schedule \in OpsSchedules :
       SetReminderSchedule(userId, habitId, schedule)
  \/ \E userId \in Users, habitId \in HabitIds, enabled \in BOOLEAN :
       ToggleReminder(userId, habitId, enabled)
  \/ \E userId \in Users, habitId \in HabitIds : ToggleDisabled(userId, habitId)

SpecOps == InitOps /\ [][NextOps]_vars

\* C12: across check-ins and schedule or toggle operations, no step removes a
\* badge type from habit.badges, whatever happens to the streak.
C12_BadgesNeverLost ==
  [][BadgeTypes(FindHabit(kv, 1, "h1").badges)
       \subseteq BadgeTypes(FindHabit(kv', 1, "h1").badges)]_vars

\* the 5-day badge is still held after a drop and a disable toggle
C12_Witness ==
  /\ last.op = "toggleDisabled"
  /\ Stored.disabled
  /\ Stored.streak = 0
  /\ Stored.dropped # <<>>
  /\ 5 \in StoredBadgeTypes

\* --------------------------------------------- check-in requests in parallel
\* A request runs execute / skipHabit one store access at a time: the load and
\* the guard (StartCheckIn), the get and the set inside updateHabit
\* (UpdateGet, UpdateSet) and the read of the habit it returns (ReadBack).
MaxRaceDay == 1

Outcomes == {"completed", "dropped", "skipped"}

UpdatesFor(outcome, habit, today) ==
  IF outcome = "completed" THEN CompletedUpdates(habit, today)
  ELSE IF outcome = "dropped" THEN DroppedUpdates(habit, today)
  ELSE SkippedUpdates(habit, today)

StartCheckIn(p, userId, habitId, outcome) ==
  LET habit == FindHabit(kv, userId, habitId)
      today == clock
  IN /\ procs[p].pc \in {"idle", "done"}
     /\ HasHabit(kv, userId, habitId)
     /\ procs' = [procs EXCEPT ![p] =
          IF AlreadyCheckedToday(habit, today)
          THEN [pc |-> "done", outcome |-> outcome, userId |-> userId,
                habitId |-> habitId, today |-> today, habit |-> habit,
                returned |-> habit, writes |-> 0]
          ELSE [pc |-> "loaded", outcome |-> outcome, userId |-> userId,
                habitId |-> habitId, today |-> today, habit |-> habit,
                updates |-> UpdatesFor(outcome, habit, today)]]
     /\ UNCHANGED <<kv, clock, last, run, prefs>>

\* updateHabit: getUserHabits
UpdateGet(p) ==
  /\ procs[p].pc = "loaded"
  /\ procs' = [procs EXCEPT ![p] =
       [pc |-> "merging", outcome |-> @.outcome, userId |-> @.userId,
        habitId |-> @.habitId, today |-> @.today, habit |-> @.habit,
        updates |-> @.updates, userHabits |-> GetUserHabits(kv, @.userId)]]
  /\ UNCHANGED <<kv, clock, last, run, prefs>>

\* updateHabit: the spread into the record it read, and saveUserHabits
UpdateSet(p) ==
  LET r == procs[p]
      habitIndex == FindIndex(r.userHabits.habits, r.habitId)
  IN /\ r.pc = "merging"
     /\ kv' = SaveUserHabits(kv,
                [r.userHabits EXCEPT !.habits[habitIndex] = Spread(@, r.updates)])
     /\ procs' = [procs EXCEPT ![p] =
          [pc |-> "written", outcome |-> r.outcome, userId |-> r.userId,
           habitId |-> r.habitId, today |-> r.today, habit |-> r.habit,
           updates |-> r.updates]]
     /\ UNCHANGED <<clock, last, run, prefs>>

\* the habit read back and returned
ReadBack(p) ==
  LET r == procs[p]
  IN /\ r.pc = "written"
     /\ procs' = [procs EXCEPT ![p] =
          [pc |-> "done", outcome |-> r.outcome, userId |-> r.userId,
           habitId |-> r.habitId, today |-> r.today, habit |-> r.habit,
           updates |-> r.updates,
           returned |-> FindHabit(kv, r.userId, r.habitId), writes |-> 1]]
     /\ UNCHANGED <<kv, clock, last, run, prefs>>

\* midnight UTC passes, whatever the requests are doing
Midnight ==
  /\ clock < MaxRaceDay
  /\ clock' = clock + 1
  /\ UNCHANGED <<kv, last, run, procs, prefs>>

NextRace ==
  \/ \E p \in Requests, userId \in Users, habitId \in HabitIds, outcome \in Outcomes :
       StartCheckIn(p, userId, habitId, outcome)
  \/ \E p \in Requests : UpdateGet(p)
  \/ \E p \in Requests : UpdateSet(p)
  \/ \E p \in Requests : ReadBack(p)
  \/ Midnight

SpecRace == Init /\ [][NextRace]_vars

\* both requests have run to their end, and each had loaded the same habit,
\* not yet checked on its day, before the other wrote
BothLoadedFirst ==
  /\ procs[1].pc = "done" /\ procs[2].pc = "done"
  /\ procs[1].writes = 1 /\ procs[2].writes = 1
  /\ procs[1].habit = procs[2].habit
  /\ procs[1].today = procs[2].today
  /\ procs[1].userId = procs[2].userId
  /\ procs[1].habitId = procs[2].habitId

\* C11: when two check-ins of the same habit on the same day each load the
\* record before the other has written, the stored habit afterwards is what
\* exactly one of the two outcomes alone would have left: never, for one, a
\* dropped entry dated today together with an incremented streak.
C11_AtMostOneTransition ==
  BothLoadedFirst =>
    \E p \in Requests :
      FindHabit(kv, procs[p].userId, procs[p].habitId)
        = Spread(procs[p].habit, procs[p].updates)

\* ------------------------------------------------------- reminder due times
\* A Date is a number of minutes since 00:00 UTC of day 0, the day the habit
\* was created, taken to be a Monday and the 5th of a month that follows a
\* month of 31 days.  Minutes are the finest grain the evaluator looks at.
TimeZones == {"UTC", "Asia/Tokyo", "America/Phoenix"}

\* minutes east of UTC; none of the three zones has daylight saving
Offset(timeZone) ==
  CASE timeZone = "UTC" -> 0
    [] timeZone = "Asia/Tokyo" -> 540
    [] timeZone = "America/Phoenix" -> -420

\* the zone the process runs in (Date.getHours, new Date(string))
ServerZone == "UTC"

DateAt(day, hour, minute) == day * 1440 + hour * 60 + minute

\* date.toLocaleString('en-US', { timeZone }): the wall-clock reading there
ToLocaleString(date, timeZone) == date + Offset(timeZone)

\* new Date(string): the reading taken as a time of the process's own zone
ParseLocal(wallClock) == wallClock - Offset(ServerZone)

GetUTCHours(date) == (date \div 60) % 24
GetUTCMinutes(date) == date % 60
GetHours(date) == GetUTCHours(date + Offset(ServerZone))
GetMinutes(date) == GetUTCMinutes(date + Offset(ServerZone))

\* date.toISOString().split('T')[0]
ISODate(date) == date \div 1440

DayOfWeek(day) == (day + 1) % 7
DayOfMonth(day) == ((day + 4) % 31) + 1

\* date.getDay() and date.getDate()
GetDay(date) == DayOfWeek(ISODate(date + Offset(ServerZone)))
GetDate(date) == DayOfMonth(ISODate(date + Offset(ServerZone)))

Includes(seq, x) == \E i \in DOMAIN seq : seq[i] = x

\* the flag that is tested is the other one
RemindersOff_Disabled(habit) == Field(habit, "disabled", FALSE) = TRUE

\* habit.reminderEnabled === false: an absent field is not false
RemindersOff(habit) == Field(habit, "reminderEnabled", TRUE) = FALSE

\* a reminder whose minute has passed is still sent within the hour
TimeGate_CatchUp(schedule, effectiveHour, effectiveMinute) ==
  effectiveHour = schedule.hour /\ effectiveMinute >= schedule.minute

TimeGate(schedule, effectiveHour, effectiveMinute) ==
  effectiveHour = schedule.hour /\ effectiveMinute = schedule.minute

\* days of the week counted from Monday
WeeklyGate_MondayFirst(schedule, effectiveDate) ==
  Includes(schedule.daysOfWeek, (GetDay(effectiveDate) + 6) % 7)

WeeklyGate(schedule, effectiveDate) ==
  Includes(schedule.daysOfWeek, GetDay(effectiveDate))

MonthlyGate(schedule, effectiveDate) ==
  Includes(schedule.daysOfMonth, GetDate(effectiveDate))

\* no test that the start date has come
IntervalGate_NoStartTest(habit, schedule, effectiveDate) ==
  LET startDate == Field(schedule, "startDate", habit.createdAt)
      daysDiff == ISODate(effectiveDate) - startDate
  IN daysDiff % schedule.intervalDays = 0

IntervalGate(habit, schedule, effectiveDate) ==
  LET startDate == Field(schedule, "startDate", habit.createdAt)
      daysDiff == ISODate(effectiveDate) - startDate
  IN daysDiff >= 0 /\ daysDiff % schedule.intervalDays = 0

\* CheckHabitReminderDueUseCase.isDue
isDue(habit, checkDate, checkHour, checkMinute, timezone) ==
  LET schedule == Field(habit, "reminderSchedule", DailySchedule)
      convert == "timezone" \in DOMAIN schedule /\ schedule.timezone # timezone
      scheduleTime == ParseLocal(ToLocaleString(checkDate, schedule.timezone))
      effectiveHour == IF convert THEN GetHours(scheduleTime) ELSE checkHour
      effectiveMinute == IF convert THEN GetMinutes(scheduleTime) ELSE checkMinute
      effectiveDate == IF convert THEN scheduleTime ELSE checkDate
  IN IF RemindersOff(habit) THEN FALSE
     ELSE IF ~TimeGate(schedule, effectiveHour, effectiveMinute) THEN FALSE
     ELSE CASE schedule.type = "daily" -> TRUE
            [] schedule.type = "weekly" -> WeeklyGate(schedule, effectiveDate)
            [] schedule.type = "monthly" -> MonthlyGate(schedule, effectiveDate)
            [] schedule.type = "interval" -> IntervalGate(habit, schedule, effectiveDate)
            [] OTHER -> FALSE

\* the habit object that was passed, once isDue has returned: the interval case
\* assigns the start date it assumes to the schedule it was given
HabitAfterIsDue(habit, checkDate, checkHour, checkMinute, timezone) ==
  LET schedule == Field(habit, "reminderSchedule", DailySchedule)
      convert == "timezone" \in DOMAIN schedule /\ schedule.timezone # timezone
      scheduleTime == ParseLocal(ToLocaleString(checkDate, schedule.timezone))
      effectiveHour == IF convert THEN GetHours(scheduleTime) ELSE checkHour
      effectiveMinute == IF convert THEN GetMinutes(scheduleTime) ELSE checkMinute
  IN IF /\ ~RemindersOff(habit)
        /\ "reminderSchedule" \in DOMAIN habit
        /\ TimeGate(schedule, effectiveHour, effectiveMinute)
        /\ schedule.type = "interval"
        /\ "startDate" \notin DOMAIN schedule
     THEN [habit EXCEPT !.reminderSchedule =
             Spread(schedule, [startDate |-> habit.createdAt])]
     ELSE habit

\* schedules that validateSchedule accepts
DueSchedules ==
  {[type |-> "daily", hour |-> 9, minute |-> 0, timezone |-> z] : z \in TimeZones}
  \cup {[type |-> "weekly", daysOfWeek |-> <<1, 5>>, hour |-> 18, minute |-> 0,
         timezone |-> z] : z \in {"UTC", "Asia/Tokyo"}}
  \cup {[type |-> "monthly", daysOfMonth |-> <<5, 7>>, hour |-> 9, minute |-> 0,
         timezone |-> "UTC"],
        [type |-> "interval", intervalDays |-> 2, hour |-> 9, minute |-> 0,
         timezone |-> "UTC"],
        [type |-> "interval", intervalDays |-> 3, hour |-> 9, minute |-> 0,
         timezone |-> "America/Phoenix", startDate |-> 3]}

CheckMinutes == {0, 1, 59}

\* the store once the habit of day 0 has been given this schedule and these flags
StoreWith(schedule, reminderEnabled, disabled) ==
  LET scheduled == SetSchedule(Created, 1, "h1", schedule)
      userHabits == GetUserHabits(scheduled, 1)
  IN SaveUserHabits(scheduled,
       [userHabits EXCEPT !.habits[1] =
          Spread(@, [reminderEnabled |-> reminderEnabled, disabled |-> disabled])])

\* a record written before habits had schedules: no reminderSchedule, no
\* disabled, and reminderEnabled only when given
LegacyHabit(userId, habitId, flags) ==
  Spread([id |-> habitId, userId |-> userId, streak |-> 0, createdAt |-> 0,
          lastCheckedDate |-> NoDate, skipped |-> <<>>, dropped |-> <<>>],
         flags)

LegacyRecords(flags) ==
  [u \in Users |-> [userId |-> u, habits |-> <<LegacyHabit(u, "h1", flags)>>]]

LegacyStores ==
  {LegacyRecords(<<>>)}
  \cup {LegacyRecords([reminderEnabled |-> b]) : b \in BOOLEAN}

\* the habit as the store holds it, without the defaults of getUserHabits
RawHabit(store, userId, habitId) ==
  store[userId].habits[FindIndex(store[userId].habits, habitId)]

\* some day of the habit's first week; a caller in some zone is about to ask,
\* at some minute of that day, whether the habit is due
InitIsDue ==
  /\ clock \in 0..MaxDay
  /\ kv \in {StoreWith(schedule, reminderEnabled, disabled) :
               schedule \in DueSchedules, reminderEnabled \in BOOLEAN,
               disabled \in BOOLEAN} \cup LegacyStores
  /\ last \in {[op |-> "call", hour |-> hour, minute |-> minute, timezone |-> timezone] :
                 hour \in 0..23, minute \in CheckMinutes, timezone \in TimeZones}
  /\ run = RunOff
  /\ procs = NoRequests
  /\ prefs = NoPreferences

\* the call of isDue at that instant: the caller passes the instant and the hour
\* and the minute that the clock of their own zone shows at it
IsDueCall(userId, habitId) ==
  LET habit == RawHabit(kv, userId, habitId)
      checkDate == DateAt(clock, last.hour, last.minute)
      observed == ToLocaleString(checkDate, last.timezone)
      checkHour == GetUTCHours(observed)
      checkMinute == GetUTCMinutes(observed)
  IN /\ last.op = "call"
     /\ last' = [op |-> "isDue", habit |-> habit, checkDate |-> checkDate,
                 checkHour |-> checkHour, checkMinute |-> checkMinute,
                 timezone |-> last.timezone,
                 returned |-> isDue(habit, checkDate, checkHour, checkMinute,
                                    last.timezone),
                 habitAfter |-> HabitAfterIsDue(habit, checkDate, checkHour,
                                                checkMinute, last.timezone)]
     /\ UNCHANGED <<kv, clock, run, procs, prefs>>

NextIsDue == \E userId \in Users, habitId \in HabitIds : IsDueCall(userId, habitId)

SpecIsDue == InitIsDue /\ [][NextIsDue]_vars

\* the latest call was isDue; its schedule, and the clock reading of its instant
\* in a zone
DueChecked == last.op = "isDue" /\ "reminderSchedule" \in DOMAIN last.habit

DefaultChecked == last.op = "isDue" /\ "reminderSchedule" \notin DOMAIN last.habit

CalledSchedule == last.habit.reminderSchedule

HourIn(timeZone) == ((last.checkDate + Offset(timeZone)) \div 60) % 24

MinuteIn(timeZone) == (last.checkDate + Offset(timeZone)) % 60

DayIn(timeZone) == (last.checkDate + Offset(timeZone)) \div 1440

\* C16: for a daily schedule {h, m, UTC} with reminders enabled, isDue is true
\* at exactly the instants whose UTC hour and minute are h and m: with 9:00 it is
\* true at 09:00 UTC and false at 08:59 and at 09:01.
C16_DailyExactMinute ==
  (/\ DueChecked
   /\ CalledSchedule.type = "daily"
   /\ CalledSchedule.timezone = "UTC"
   /\ last.habit.reminderEnabled)
  => (last.returned <=> (/\ HourIn("UTC") = CalledSchedule.hour
                          /\ MinuteIn("UTC") = CalledSchedule.minute))

\* 09:00 UTC on day 1, asked by an observer in Tokyo
C16_Witness ==
  /\ DueChecked
  /\ CalledSchedule = [type |-> "daily", hour |-> 9, minute |-> 0, timezone |-> "UTC"]
  /\ last.habit.reminderEnabled
  /\ last.timezone = "Asia/Tokyo"
  /\ last.checkDate = 1440 + 9 * 60
  /\ last.returned

Converted == CalledSchedule.timezone # last.timezone

EffectiveHour ==
  IF Converted THEN HourIn(CalledSchedule.timezone) ELSE last.checkHour

EffectiveMinute ==
  IF Converted THEN MinuteIn(CalledSchedule.timezone) ELSE last.checkMinute

EffectiveDay ==
  IF Converted THEN DayIn(CalledSchedule.timezone) ELSE DayIn("UTC")

TimeMatches ==
  /\ EffectiveHour = CalledSchedule.hour
  /\ EffectiveMinute = CalledSchedule.minute

\* C18: for a weekly schedule isDue is true iff the effective hour and minute
\* are the schedule's and the day of the week of the effective date (0 = Sunday)
\* is in daysOfWeek: with daysOfWeek <<1, 5>> at 18:00 it is false on Wednesday
\* at 18:00, true on Monday at 18:00 and false on Monday at 18:01.
C18_WeeklyGate ==
  (/\ DueChecked
   /\ CalledSchedule.type = "weekly"
   /\ last.habit.reminderEnabled)
  => /\ last.returned <=>
          (/\ TimeMatches
           /\ \E i \in DOMAIN CalledSchedule.daysOfWeek :
                CalledSchedule.daysOfWeek[i] = DayOfWeek(EffectiveDay))
     /\ (CalledSchedule = WeeklySchedule /\ last.timezone = "UTC")
          => /\ last.checkDate = DateAt(2, 18, 0) => ~last.returned
             /\ last.checkDate = DateAt(0, 18, 0) => last.returned
             /\ last.checkDate = DateAt(0, 18, 1) => ~last.returned

\* Friday (day 4) at 18:00 in Tokyo, asked by an observer on UTC time
C18_Witness ==
  /\ DueChecked
  /\ CalledSchedule.type = "weekly"
  /\ CalledSchedule.timezone = "Asia/Tokyo"
  /\ last.habit.reminderEnabled
  /\ last.timezone = "UTC"
  /\ last.checkDate = DateAt(4, 9, 0)
  /\ last.returned

\* the start of an interval schedule: startDate, or the day the habit was created
StartDay == Field(CalledSchedule, "startDate", last.habit.createdAt)

\* C19: for an interval schedule, once the time matches, isDue is true iff the
\* number of whole days from startDate (the habit's creation date when there is
\* no startDate) to the effective date is at least 0 and divisible by
\* intervalDays; on every date before startDate it is false.
C19_IntervalGate ==
  (/\ DueChecked
   /\ CalledSchedule.type = "interval"
   /\ last.habit.reminderEnabled
   /\ TimeMatches)
  => /\ last.returned <=>
          (/\ EffectiveDay - StartDay >= 0
           /\ (EffectiveDay - StartDay) % CalledSchedule.intervalDays = 0)
     /\ EffectiveDay < StartDay => ~last.returned

\* every third day from day 3: day 6 at 09:00 in Phoenix
C19_Witness ==
  /\ DueChecked
  /\ CalledSchedule.type = "interval"
  /\ CalledSchedule.intervalDays = 3
  /\ StartDay = 3
  /\ last.habit.reminderEnabled
  /\ TimeMatches
  /\ EffectiveDay = 6
  /\ last.returned

\* --------------------------------------------------- the due-habit selection
\* saveUserPreferences: the stored preferences with the new fields over them
SaveUserPreferences(store, preferences) ==
  [u \in DOMAIN store \cup {preferences.userId} |->
     IF u = preferences.userId
     THEN Spread(IF u \in DOMAIN store THEN store[u] ELSE <<>>, preferences)
     ELSE store[u]]

\* SetUserPreferencesUseCase.setTimezone
SetTimezone(store, userId, timezone) ==
  SaveUserPreferences(store, [userId |-> userId, timezone |-> timezone])

\* userPreferences?.timezone || 'UTC'
UserTimezone(store, userId) ==
  IF userId \in DOMAIN store /\ "timezone" \in DOMAIN store[userId]
  THEN store[userId].timezone
  ELSE "UTC"

\* getAllActiveUserIds: the users that createHabit has registered
RECURSIVE ActiveUserIds(_)
ActiveUserIds(userIds) ==
  IF userIds = {} THEN <<>>
  ELSE LET u == CHOOSE x \in userIds : \A y \in userIds : x <= y
       IN <<u>> \o ActiveUserIds(userIds \ {u})

\* the body of the loop over the active users
HabitsDueOfUser(store, preferences, userId, currentDate, currentHour, currentMinute, serverTimezone) ==
  LET userHabits == GetUserHabits(store, userId)
      userTimezone == UserTimezone(preferences, userId)
      convert == userTimezone # serverTimezone
      userTime == ParseLocal(ToLocaleString(currentDate, userTimezone))
      userDate == IF convert THEN userTime ELSE currentDate
      userHour == IF convert THEN GetHours(userTime) ELSE currentHour
      userMinute == IF convert THEN GetMinutes(userTime) ELSE currentMinute
      today == ISODate(userDate)
  IN IF userId \notin DOMAIN store THEN <<>>
     ELSE SelectSeq(userHabits.habits,
            LAMBDA habit :
              /\ habit.disabled # TRUE
              /\ habit.lastCheckedDate # today
              /\ isDue(habit, userDate, userHour, userMinute, userTimezone))

\* GetHabitsDueForReminderUseCase.execute
RECURSIVE HabitsDueOfUsers(_, _, _, _, _, _, _)
HabitsDueOfUsers(userIds, store, preferences, currentDate, currentHour, currentMinute, serverTimezone) ==
  IF userIds = <<>> THEN <<>>
  ELSE HabitsDueOfUser(store, preferences, Head(userIds), currentDate,
                       currentHour, currentMinute, serverTimezone)
       \o HabitsDueOfUsers(Tail(userIds), store, preferences, currentDate,
                           currentHour, currentMinute, serverTimezone)

GetHabitsDue(store, preferences, currentDate, currentHour, currentMinute, serverTimezone) ==
  HabitsDueOfUsers(ActiveUserIds(DOMAIN store), store, preferences,
                   currentDate, currentHour, currentMinute, serverTimezone)

\* some day of the habit's first week: the habit has a schedule, the user has
\* or has not chosen a zone, and the reminder job is about to run at some minute
InitSelect ==
  /\ clock \in 0..MaxDay
  /\ kv \in {StoreWith(schedule, reminderEnabled, disabled) :
               schedule \in DueSchedules, reminderEnabled \in BOOLEAN,
               disabled \in BOOLEAN}
  /\ prefs \in {NoPreferences}
                 \cup {SetTimezone(NoPreferences, 1, z) : z \in TimeZones}
  /\ last \in {[op |-> "call", hour |-> hour, minute |-> minute] :
                 hour \in 0..23, minute \in CheckMinutes}
  /\ run = RunOff
  /\ procs = NoRequests

\* the reminder job: now, its UTC hour and minute, and 'UTC' are passed to
\* GetHabitsDueForReminderUseCase.execute
SelectDue ==
  LET now == DateAt(clock, last.hour, last.minute)
  IN /\ last.op = "call"
     /\ last' = [op |-> "getHabitsDue", currentDate |-> now,
                 returned |-> GetHabitsDue(kv, prefs, now, GetUTCHours(now),
                                           GetUTCMinutes(now), ServerZone)]
     /\ UNCHANGED <<kv, clock, run, procs, prefs>>

NextSelect == SelectDue

SpecSelect == InitSelect /\ [][NextSelect]_vars

\* the reading of the job's instant in the zone of the stored habit's schedule
ScheduleClock == last.currentDate + Offset(Stored.reminderSchedule.timezone)

\* the date gate of the stored habit's schedule on a calendar day
DateGateOn(day) ==
  LET schedule == Stored.reminderSchedule
  IN CASE schedule.type = "daily" -> TRUE
       [] schedule.type = "weekly" ->
            \E i \in DOMAIN schedule.daysOfWeek :
              schedule.daysOfWeek[i] = DayOfWeek(day)
       [] schedule.type = "monthly" ->
            \E i \in DOMAIN schedule.daysOfMonth :
              schedule.daysOfMonth[i] = DayOfMonth(day)
       [] schedule.type = "interval" ->
            LET daysDiff == day - Field(schedule, "startDate", Stored.createdAt)
            IN daysDiff >= 0 /\ daysDiff % schedule.intervalDays = 0

\* C20: a habit whose schedule names zone Z, with reminders on, not disabled and
\* not checked today, is reported due by the selection at an instant iff the
\* clock of Z shows the schedule's hour and minute at that instant and the date
\* gate passes for the calendar date in Z, whatever the user's preferred zone.
C20_DueInScheduleZone ==
  (/\ last.op = "getHabitsDue"
   /\ Stored.reminderEnabled
   /\ ~Stored.disabled
   /\ Stored.lastCheckedDate = NoDate)
  => ((\E i \in DOMAIN last.returned : last.returned[i].id = Stored.id)
        <=> (/\ (ScheduleClock \div 60) % 24 = Stored.reminderSchedule.hour
             /\ ScheduleClock % 60 = Stored.reminderSchedule.minute
             /\ DateGateOn(ScheduleClock \div 1440)))

\* ------------------------------------------- the lists a check-in maintains
\* C28: checked grows only by a completed check-in on a habit whose schedule is
\* not daily, by one entry dated today, and never holds a date twice; a
\* check-in on a habit whose schedule is daily leaves checked as it was.
C28_CheckedOnlyNonDaily ==
  [][LET before == FindHabit(kv, 1, "h1")
         after == FindHabit(kv', 1, "h1")
     IN /\ after.checked # before.checked
             => /\ last'.op = "execute"
                /\ last'.outcome = "completed"
                /\ ~IsDaily(before)
                /\ after.checked = Append(before.checked, [date |-> clock])
        /\ IsDaily(before) => after.checked = before.checked
        /\ \A i, j \in DOMAIN after.checked :
             after.checked[i].date = after.checked[j].date => i = j]_vars

\* after a change to a weekly schedule, the first completion is on record
C28_Witness ==
  /\ TookEffect("completed")
  /\ ~IsDaily(last.habit)
  /\ last.habit.checked = <<>>
  /\ Stored.checked = <<[date |-> last.today]>>

\* C29: under sequential check-ins every entry of habit.skipped is dated
\* strictly later than the latest entry of habit.dropped.
C29_SkipsFollowLastDrop ==
  \A i \in DOMAIN Stored.skipped, j \in DOMAIN Stored.dropped :
    Stored.skipped[i].date > Stored.dropped[j].date

\* a skip recorded after a drop that had wiped an earlier skip
C29_Witness ==
  /\ TookEffect("skipped")
  /\ last.habit.dropped # <<>>
  /\ last.habit.skipped = <<>>
  /\ \E j \in DOMAIN Stored.dropped : Stored.dropped[j].date > 0
  /\ Len(Stored.skipped) = 1

\* C30: SetHabitReminderScheduleUseCase.execute changes only reminderSchedule and
\* sets reminderEnabled to true, toggleReminder changes only reminderEnabled and
\* ToggleHabitDisabledUseCase.execute only disabled: streak, lastCheckedDate,
\* skipped, dropped, checked and badges are as before.
C30_OperationsKeepStreakData ==
  [][LET before == FindHabit(kv, 1, "h1")
         after == FindHabit(kv', 1, "h1")
     IN /\ last'.op = "setSchedule"
             => after = [before EXCEPT !.reminderSchedule = after.reminderSchedule,
                                       !.reminderEnabled = TRUE]
        /\ last'.op = "toggleReminder"
             => after = [before EXCEPT !.reminderEnabled = after.reminderEnabled]
        /\ last'.op = "toggleDisabled"
             => after = [before EXCEPT !.disabled = ~before.disabled]]_vars

\* a weekly schedule given to a habit that holds a streak, a badge and a skip
C30_Witness ==
  /\ last.op = "setSchedule"
  /\ Stored.reminderSchedule = WeeklySchedule
  /\ Stored.streak >= 5
  /\ Stored.badges # <<>>
  /\ Stored.skipped # <<>>

\* ------------------------------------- check-ins for users and habits unknown
\* user 2 has no record, and no record holds a habit h2
AnyUsers == {1, 2}

AnyHabitIds == {"h1", "h2"}

NextNotFound ==
  \/ \E userId \in AnyUsers, habitId \in AnyHabitIds, completed \in BOOLEAN :
       Execute(userId, habitId, completed)
  \/ \E userId \in AnyUsers, habitId \in AnyHabitIds : SkipHabit(userId, habitId)
  \/ Tick

SpecNotFound == InitOps /\ [][NextNotFound]_vars

\* the check-in that has just been made named a user or a habit the store lacks
Unknown(userId, habitId) ==
  \/ userId \notin DOMAIN kv
  \/ \A i \in DOMAIN kv[userId].habits : kv[userId].habits[i].id # habitId

\* C27: execute or skipHabit for a user without a stored record, or for a habit
\* id that the user's record does not hold, fails with an error and writes
\* nothing: the store is as it was.
C27_NotFoundWritesNothing ==
  [][(/\ last'.op \in {"execute", "skipHabit"}
      /\ last' # last
      /\ Unknown(last'.userId, last'.habitId))
     => /\ "error" \in DOMAIN last'
        /\ last'.error \in {"User habits not found", "Habit not found"}
        /\ "returned" \notin DOMAIN last'
        /\ kv' = kv]_vars

\* a skip of a habit id that the record of user 1 does not hold
C27_Witness ==
  /\ last.op = "skipHabit"
  /\ last.userId = 1
  /\ last.habitId = "h2"
  /\ last.error = "Habit not found"
  /\ Stored.streak >= 5

\* ------------------------------------------------- schedules that are refused
WeeklyOn(daysOfWeek) ==
  [type |-> "weekly", daysOfWeek |-> daysOfWeek, hour |-> 18, minute |-> 0,
   timezone |-> "UTC"]

MonthlyOn(daysOfMonth) ==
  [type |-> "monthly", daysOfMonth |-> daysOfMonth, hour |-> 9, minute |-> 0,
   timezone |-> "UTC"]

Every(intervalDays) ==
  [type |-> "interval", intervalDays |-> intervalDays, hour |-> 9, minute |-> 0,
   timezone |-> "UTC"]

\* schedules as a caller may pass them: some validate, the others break one rule
ScheduleInputs ==
  {[type |-> "daily", hour |-> h, minute |-> 0, timezone |-> "UTC"] :
     h \in {-1, 0, 23, 24}}
  \cup {[type |-> "daily", hour |-> 9, minute |-> m, timezone |-> "UTC"] :
          m \in {-1, 59, 60}}
  \cup {WeeklyOn(d) : d \in {<<>>, <<0, 6>>, <<1, 7>>, << -1 >>}}
  \cup {[type |-> "weekly", hour |-> 18, minute |-> 0, timezone |-> "UTC"]}
  \cup {MonthlyOn(d) : d \in {<<>>, <<1, 31>>, <<0>>, <<32>>}}
  \cup {[type |-> "monthly", hour |-> 9, minute |-> 0, timezone |-> "UTC"]}
  \cup {Every(n) : n \in {-1, 0, 1, 2}}
  \cup {[type |-> "interval", hour |-> 9, minute |-> 0, timezone |-> "UTC"]}

NextValidate ==
  \/ \E userId \in Users, habitId \in HabitIds, completed \in BOOLEAN :
       Execute(userId, habitId, completed)
  \/ \E userId \in Users, habitId \in HabitIds : SkipHabit(userId, habitId)
  \/ Tick
  \/ \E userId \in Users, habitId \in HabitIds, schedule \in ScheduleInputs :
       SetReminderSchedule(userId, habitId, schedule)

SpecValidate == InitOps /\ [][NextValidate]_vars

\* the schedule breaks one of the rules for its type
Malformed(schedule) ==
  \/ schedule.hour \notin 0..23
  \/ schedule.minute \notin 0..59
  \/ /\ schedule.type = "weekly"
     /\ \/ "daysOfWeek" \notin DOMAIN schedule
        \/ schedule.daysOfWeek = <<>>
        \/ \E i \in DOMAIN schedule.daysOfWeek : schedule.daysOfWeek[i] \notin 0..6
  \/ /\ schedule.type = "monthly"
     /\ \/ "daysOfMonth" \notin DOMAIN schedule
        \/ schedule.daysOfMonth = <<>>
        \/ \E i \in DOMAIN schedule.daysOfMonth : schedule.daysOfMonth[i] \notin 1..31
  \/ /\ schedule.type = "interval"
     /\ \/ "intervalDays" \notin DOMAIN schedule
        \/ schedule.intervalDays < 1

\* C26: SetHabitReminderScheduleUseCase.execute with an hour outside 0..23, a
\* minute outside 0..59, an empty or out-of-range daysOfWeek or daysOfMonth, or
\* an intervalDays below 1 throws before any write: the stored habit is as it was.
C26_MalformedScheduleRefused ==
  [][(/\ last'.op = "setSchedule"
      /\ last' # last
      /\ Malformed(last'.schedule))
     => /\ "error" \in DOMAIN last'
        /\ "returned" \notin DOMAIN last'
        /\ kv' = kv]_vars

\* hour 24 refused for a habit that holds a streak and a badge
C26_Witness ==
  /\ last.op = "setSchedule"
  /\ last.schedule.hour = 24
  /\ last.error = "Hour must be between 0 and 23"
  /\ Stored.reminderSchedule = DailySchedule
  /\ Stored.streak >= 5
  /\ Stored.badges # <<>>

\* -------------------------------------------------- a habit with no schedule
\* C21 as stated: for a habit with no reminderSchedule, isDue is true exactly
\* when the clock of the observer's own zone shows 22:00 at the instant, for
\* every observer zone.
C21_DueAtObserverTime ==
  (DefaultChecked /\ ~RemindersOff(last.habit))
    => (last.returned <=> (last.checkHour = 22 /\ last.checkMinute = 0))

\* what isDue does for such a habit: it is due exactly at the instants at which
\* it is 22:00 in UTC, whatever the observer's zone, and the habit read through
\* getUserHabits carries the same default
DefaultDueAtUTC ==
  (DefaultChecked /\ ~RemindersOff(last.habit))
    => /\ last.returned <=> (HourIn("UTC") = 22 /\ MinuteIn("UTC") = 0)
       /\ FindHabit(kv, 1, "h1").reminderSchedule =
            [type |-> "daily", hour |-> 22, minute |-> 0, timezone |-> "UTC"]

\* C22 as stated: isDue leaves the habit and its reminderSchedule as they were
\* passed; an interval schedule without startDate has none after the call.
C22_IsDueLeavesHabit ==
  last.op = "isDue" => last.habitAfter = last.habit

\* --------------------------------------------- the reminder job after a check-in
\* hours of day 0, in UTC, at which the user checks in
CheckInHours == {0, 8, 10, 14, 16, 20, 23}

\* day 0: the habit has a daily schedule in some zone, the user has or has not
\* chosen a zone and is about to check in; the reminder job runs later that day
\* or on the next
InitChecked ==
  /\ clock = 0
  /\ kv \in {StoreWith([type |-> "daily", hour |-> 9, minute |-> 0, timezone |-> z],
                       TRUE, disabled) : z \in TimeZones, disabled \in BOOLEAN}
  /\ prefs \in {NoPreferences}
                 \cup {SetTimezone(NoPreferences, 1, z) : z \in TimeZones}
  /\ last \in {[op |-> "call", outcome |-> outcome, checkHour |-> checkHour,
                later |-> later, hour |-> hour, minute |-> 0] :
                 outcome \in Outcomes, checkHour \in CheckInHours,
                 later \in {0, 1}, hour \in 0..23}
  /\ run = RunOff
  /\ procs = NoRequests

\* RecordHabitCheckUseCase.execute or skipHabit at an instant of the day: today
\* is the UTC date of the instant
CheckInAt(userId, habitId) ==
  LET habit == FindHabit(kv, userId, habitId)
      now == DateAt(clock, last.checkHour, 0)
      today == ISODate(now)
  IN /\ last.op = "call"
     /\ ~AlreadyCheckedToday(habit, today)
     /\ kv' = UpdateHabit(kv, userId, habitId,
                          UpdatesFor(last.outcome, habit, today))
     /\ last' = [op |-> "checkIn", outcome |-> last.outcome, checkedAt |-> now,
                 later |-> last.later, hour |-> last.hour, minute |-> last.minute]
     /\ UNCHANGED <<clock, run, procs, prefs>>

\* the reminder job at a later instant
RemindAfter ==
  LET now == DateAt(clock + last.later, last.hour, last.minute)
  IN /\ last.op = "checkIn"
     /\ now >= last.checkedAt
     /\ clock' = clock + last.later
     /\ last' = [op |-> "getHabitsDue", currentDate |-> now,
                 checkedAt |-> last.checkedAt,
                 returned |-> GetHabitsDue(kv, prefs, now, GetUTCHours(now),
                                           GetUTCMinutes(now), ServerZone)]
     /\ UNCHANGED <<kv, run, procs, prefs>>

NextChecked ==
  \/ \E userId \in Users, habitId \in HabitIds : CheckInAt(userId, habitId)
  \/ RemindAfter

SpecChecked == InitChecked /\ [][NextChecked]_vars

\* the calendar day that a zone's clock shows at an instant
LocalDay(date, timeZone) == (date + Offset(timeZone)) \div 1440

\* C23 as stated: GetHabitsDueForReminderUseCase.execute returns no disabled
\* habit, and no habit for which a check-in was recorded during the current
\* calendar day of the owning user's zone, for every user zone.
C23_NoDisabledNoCheckedToday ==
  (last.op = "getHabitsDue" /\ "checkedAt" \in DOMAIN last)
    => \A i \in DOMAIN last.returned :
         LET userTimezone == UserTimezone(prefs, last.returned[i].userId)
         IN /\ last.returned[i].disabled # TRUE
            /\ LocalDay(last.checkedAt, userTimezone)
                 # LocalDay(last.currentDate, userTimezone)

\* ----------------------------------------- the reminder job when something fails
\* a zone name offered by the time zone keyboard that is no IANA zone:
\* toLocaleString throws a RangeError for it
NoSuchZone == "Pacific/Baker_Island"

InvalidZone(timeZone) == timeZone \notin TimeZones

\* two users, each with one habit created on day 0 and given a schedule
StoreOfTwo(schedule1, schedule2) ==
  LET created == [u \in AnyUsers |-> [userId |-> u, habits |-> <<NewHabit(u, "h1", 0)>>]]
  IN SetSchedule(SetSchedule(created, 1, "h1", schedule1), 2, "h1", schedule2)

\* the preferences a user has after choosing a zone, or none
PreferencesOfTwo(choice1, choice2) ==
  LET first == IF choice1 = Null THEN NoPreferences
               ELSE SetTimezone(NoPreferences, 1, choice1)
  IN IF choice2 = Null THEN first ELSE SetTimezone(first, 2, choice2)

\* the selection as it runs when reads fail: getUserHabits answers null for the
\* users in habitsDown and the loop goes on to the next user, getUserPreferences
\* answers null for the users in prefsDown and the zone falls back to 'UTC', and
\* a RangeError of toLocaleString leaves execute, whatever was collected
RECURSIVE GetHabitsDueOrThrow(_, _, _, _, _, _, _, _, _)
GetHabitsDueOrThrow(userIds, store, preferences, habitsDown, prefsDown, currentDate, currentHour, currentMinute, serverTimezone) ==
  IF userIds = <<>> THEN [thrown |-> FALSE, habits |-> <<>>]
  ELSE LET userId == Head(userIds)
           read == IF userId \in prefsDown THEN NoPreferences ELSE preferences
           userTimezone == UserTimezone(read, userId)
           rest == GetHabitsDueOrThrow(Tail(userIds), store, preferences,
                                       habitsDown, prefsDown, currentDate,
                                       currentHour, currentMinute, serverTimezone)
       IN IF userId \in habitsDown THEN rest
          ELSE IF userTimezone # serverTimezone /\ InvalidZone(userTimezone)
            THEN [thrown |-> TRUE, habits |-> <<>>]
          ELSE IF rest.thrown THEN rest
          ELSE [thrown |-> FALSE,
                habits |-> HabitsDueOfUser(store, read, userId, currentDate,
                                           currentHour, currentMinute,
                                           serverTimezone)
                           \o rest.habits]

\* the keys of habitsByUser, in the order of insertion
RECURSIVE UsersOf(_)
UsersOf(habits) ==
  IF habits = <<>> THEN <<>>
  ELSE LET rest == UsersOf(Tail(habits))
       IN <<Head(habits).userId>>
          \o SelectSeq(rest, LAMBDA u : u # Head(habits).userId)

\* the first delivery that throws ends the loop
RECURSIVE SendAll_StopAtThrow(_, _)
SendAll_StopAtThrow(userIds, undeliverable) ==
  IF userIds = <<>>
  THEN [attempted |-> <<>>, successCount |-> 0, errorCount |-> 0, errors |-> <<>>]
  ELSE IF Head(userIds) \in undeliverable
  THEN [attempted |-> <<Head(userIds)>>, successCount |-> 0, errorCount |-> 1,
        errors |-> <<Head(userIds)>>]
  ELSE LET rest == SendAll_StopAtThrow(Tail(userIds), undeliverable)
       IN [attempted |-> <<Head(userIds)>> \o rest.attempted,
           successCount |-> rest.successCount + 1,
           errorCount |-> rest.errorCount,
           errors |-> rest.errors]

\* the loop over habitsByUser: sendHabitReminders throws for the users in
\* undeliverable, and the catch counts and lists the failure
RECURSIVE SendAll(_, _)
SendAll(userIds, undeliverable) ==
  IF userIds = <<>>
  THEN [attempted |-> <<>>, successCount |-> 0, errorCount |-> 0, errors |-> <<>>]
  ELSE LET rest == SendAll(Tail(userIds), undeliverable)
           failed == Head(userIds) \in undeliverable
       IN [attempted |-> <<Head(userIds)>> \o rest.attempted,
           successCount |-> rest.successCount + (IF failed THEN 0 ELSE 1),
           errorCount |-> rest.errorCount + (IF failed THEN 1 ELSE 0),
           errors |-> (IF failed THEN <<Head(userIds)>> ELSE <<>>) \o rest.errors]

\* hours of day 0, in UTC, at which the job runs
JobHours == {0, 8, 9, 18}

\* day 0: two users with a daily 09:00 habit each; each has chosen a zone, or
\* the zone that does not exist, or none; the job is about to run, and some
\* reads and some deliveries of this run will fail
InitRemind ==
  /\ clock = 0
  /\ kv \in {StoreOfTwo([type |-> "daily", hour |-> 9, minute |-> 0, timezone |-> z1],
                        [type |-> "daily", hour |-> 9, minute |-> 0, timezone |-> z2]) :
               z1 \in {"UTC", "Asia/Tokyo"}, z2 \in {"UTC", "Asia/Tokyo"}}
  /\ prefs \in {PreferencesOfTwo(choice1, choice2) :
                  choice1 \in {Null, "Asia/Tokyo", NoSuchZone},
                  choice2 \in {Null, "Asia/Tokyo", NoSuchZone}}
  /\ last \in {[op |-> "call", hour |-> hour, minute |-> 0,
                habitsDown |-> habitsDown, prefsDown |-> prefsDown,
                undeliverable |-> undeliverable] :
                 hour \in JobHours, habitsDown \in SUBSET AnyUsers,
                 prefsDown \in SUBSET AnyUsers,
                 undeliverable \in SUBSET AnyUsers}
  /\ run = RunOff
  /\ procs = NoRequests

\* the handler of the reminder job
RemindersHandler ==
  LET now == DateAt(clock, last.hour, last.minute)
      selected == GetHabitsDueOrThrow(ActiveUserIds(DOMAIN kv), kv, prefs,
                                      last.habitsDown, last.prefsDown, now,
                                      GetUTCHours(now), GetUTCMinutes(now),
                                      ServerZone)
      sent == SendAll(UsersOf(selected.habits), last.undeliverable)
  IN /\ last.op = "call"
     /\ last' = IF selected.thrown
                THEN [op |-> "reminders", status |-> 500, currentDate |-> now,
                      habitsDown |-> last.habitsDown,
                      prefsDown |-> last.prefsDown,
                      undeliverable |-> last.undeliverable,
                      habitsDue |-> <<>>, attempted |-> <<>>,
                      successCount |-> 0, errorCount |-> 0, errors |-> <<>>]
                ELSE [op |-> "reminders", status |-> 200, currentDate |-> now,
                      habitsDown |-> last.habitsDown,
                      prefsDown |-> last.prefsDown,
                      undeliverable |-> last.undeliverable,
                      habitsDue |-> selected.habits,
                      attempted |-> sent.attempted,
                      successCount |-> sent.successCount,
                      errorCount |-> sent.errorCount,
                      errors |-> sent.errors]
     /\ UNCHANGED <<kv, clock, run, procs, prefs>>

NextRemind == RemindersHandler

SpecRemind == InitRemind /\ [][NextRemind]_vars

\* the preferences the selection reads for a user in the latest run
ReadPreferences(userId) ==
  IF userId \in last.prefsDown THEN NoPreferences ELSE prefs

\* the user's habits cannot be evaluated in the latest run: the habits could not
\* be read, or the zone that was read for the user makes toLocaleString throw
Failing(userId) ==
  \/ userId \in last.habitsDown
  \/ InvalidZone(UserTimezone(ReadPreferences(userId), userId))

\* the habits of a user that are due at the instant of the latest run
DueOf(userId) ==
  HabitsDueOfUser(kv, ReadPreferences(userId), userId, last.currentDate,
                  GetUTCHours(last.currentDate), GetUTCMinutes(last.currentDate),
                  ServerZone)

\* C24 as stated: when reading one user's habits or preferences fails, or
\* evaluating one user's habit throws, the selection still evaluates all the
\* remaining users and returns their due habits.
C24_OtherUsersStillEvaluated ==
  last.op = "reminders"
    => \A userId \in DOMAIN kv :
         ~Failing(userId)
           => \A i \in DOMAIN DueOf(userId) :
                \E j \in DOMAIN last.habitsDue : last.habitsDue[j] = DueOf(userId)[i]

\* C25: when the delivery to one user throws, delivery is still attempted for
\* every other user that has due habits in this run, and the failure is counted
\* in errorCount and listed in errors.
C25_DeliveryFailureIsolated ==
  (last.op = "reminders" /\ last.status = 200)
    => LET dueUsers == {last.habitsDue[i].userId : i \in DOMAIN last.habitsDue}
           failed == dueUsers \cap last.undeliverable
       IN /\ {last.attempted[i] : i \in DOMAIN last.attempted} = dueUsers
          /\ {last.errors[i] : i \in DOMAIN last.errors} = failed
          /\ last.errorCount = Cardinality(failed)
          /\ Len(last.errors) = last.errorCount
          /\ last.successCount = Cardinality(dueUsers \ failed)

\* both users are due, the delivery to the first throws, the second is served
C25_Witness ==
  /\ last.op = "reminders"
  /\ last.status = 200
  /\ Len(last.habitsDue) = 2
  /\ last.undeliverable = {1}
  /\ last.attempted = <<1, 2>>
  /\ last.errors = <<1>>
  /\ last.errorCount = 1
  /\ last.successCount = 1

\* ------------------------------------- the walk backward from a dropped entry
\* the store after a completed check-in on day 0 and a skip on day 1
SkippedAfterCompleted ==
  LET store == CompletedThrough(0)
  IN UpdateHabit(store, 1, "h1", SkippedUpdates(FindHabit(store, 1, "h1"), 1))

\* day 2 of a habit completed on day 0 and skipped on day 1: requests may now
\* arrive in parallel
InitWalk ==
  /\ clock = 2
  /\ kv = SkippedAfterCompleted
  /\ last = NoOp
  /\ run = RunOff
  /\ procs = NoRequests
  /\ prefs = NoPreferences

\* midnight UTC passes once, whatever the requests are doing
MidnightOnce ==
  /\ clock = 2
  /\ clock' = clock + 1
  /\ UNCHANGED <<kv, last, run, procs, prefs>>

NextWalk ==
  \/ \E p \in Requests, userId \in Users, habitId \in HabitIds, outcome \in Outcomes :
       StartCheckIn(p, userId, habitId, outcome)
  \/ \E p \in Requests : UpdateGet(p)
  \/ \E p \in Requests : UpdateSet(p)
  \/ \E p \in Requests : ReadBack(p)
  \/ MidnightOnce

SpecWalk == InitWalk /\ [][NextWalk]_vars

\* the days that the walk backward from the drop of a date marks completed
InferredBefore(habit, date) ==
  IF DropOn(habit, date).streakBeforeDrop > 0
  THEN PreDropCompletions(habit, habit.createdAt, date - 1,
                          DropOn(habit, date).streakBeforeDrop)
  ELSE {}

\* C31: in the daily reconstruction, no day inferred backward from a dropped
\* entry lies on or before a dropped or skipped date that is earlier than that
\* entry: the walk stops at the nearest earlier skip or drop, and at createdAt.
C31_WalkStopsAtEarlierEvent ==
  (IsDaily(Stored) /\ HasTargetStreak(Stored))
    => \A date \in DroppedDateSet(Stored) :
         \A day \in InferredBefore(Stored, date) :
           /\ day >= Stored.createdAt
           /\ \A earlier \in DroppedDateSet(Stored) \cup SkippedDates(Stored) :
                earlier < date => day > earlier

\* --------------------------------------------------- a skip and the next day
\* the habit that the latest check-in read was last checked by a skip
ReadAfterSkip ==
  /\ last.habit.skipped # <<>>
  /\ last.habit.skipped[Len(last.habit.skipped)].date = last.habit.lastCheckedDate

\* the streak the habit had when that skip was recorded
StreakAtSkip == last.habit.skipped[Len(last.habit.skipped)].skippedDay

\* C32: for a habit with streak s, a skip on day d followed by a completed
\* check-in on day d+1 stores streak s+1, and followed instead by a completed
\* check-in on day d+2 or later, with nothing recorded in between, stores
\* streak 1.
C32_SkipThenComplete ==
  (TookEffect("completed") /\ ReadAfterSkip)
    => /\ last.habit.streak = StreakAtSkip
       /\ last.today = last.habit.lastCheckedDate + 1
            => Stored.streak = StreakAtSkip + 1
       /\ last.today >= last.habit.lastCheckedDate + 2
            => Stored.streak = 1

\* two completions, a skip the day after, and a completion the day after that
C32_Witness ==
  /\ TookEffect("completed")
  /\ ReadAfterSkip
  /\ StreakAtSkip = 2
  /\ last.today = last.habit.lastCheckedDate + 1
  /\ Stored.streak = 3

\* ------------------------------------------------ the habits next to a check-in
\* user 1 completed a first habit on day 0 and created a second on day 1,
\* stored as createHabit writes it; user 2 skipped their habit on day 1
SeveralHabits ==
  LET created == [u \in AnyUsers |-> [userId |-> u, habits |-> <<NewHabit(u, "h1", 0)>>]]
      first == UpdateHabit(created, 1, "h1",
                 CompletedUpdates(FindHabit(created, 1, "h1"), 0))
      second == SaveUserHabits(first,
                  [GetUserHabits(first, 1) EXCEPT
                     !.habits = Append(@, NewHabit(1, "h2", 1))])
  IN UpdateHabit(second, 2, "h1",
       SkippedUpdates(FindHabit(second, 2, "h1"), 1))

\* a later day, the next one or the one after
InitFrame ==
  /\ clock \in {2, 3}
  /\ kv = SeveralHabits
  /\ last = NoOp
  /\ run = RunOff
  /\ procs = NoRequests
  /\ prefs = NoPreferences

\* check-ins one after the other, on any habit of any user
NextFrame ==
  \/ \E userId \in AnyUsers, habitId \in AnyHabitIds, completed \in BOOLEAN :
       Execute(userId, habitId, completed)
  \/ \E userId \in AnyUsers, habitId \in AnyHabitIds : SkipHabit(userId, habitId)

SpecFrame == InitFrame /\ [][NextFrame]_vars

\* the habits of a user as getUserHabits returns them, but for one
OtherHabits(store, userId, habitId) ==
  SelectSeq(GetUserHabits(store, userId).habits, LAMBDA h : h.id # habitId)

\* C33: a check-in on one habit, run without interleaving, rewrites the user's
\* record but changes only that habit: every other habit of the user, and the
\* record of every other user, read the same before and after.
C33_OnlyThatHabitChanges ==
  [][(last'.op \in {"execute", "skipHabit"} /\ last' # last)
     => /\ DOMAIN kv' = DOMAIN kv
        /\ \A userId \in DOMAIN kv :
             /\ userId # last'.userId => kv'[userId] = kv[userId]
             /\ Len(kv'[userId].habits) = Len(kv[userId].habits)
             /\ OtherHabits(kv', userId, last'.habitId)
                  = OtherHabits(kv, userId, last'.habitId)]_vars

\* a check-in was written for the first habit of user 1; the second habit,
\* never checked, and the habit of user 2, skipped on day 1, read as before
C33_Witness ==
  /\ last.op = "execute"
  /\ last.userId = 1 /\ last.habitId = "h1"
  /\ "writes" \in DOMAIN last /\ last.writes = 1
  /\ FindHabit(kv, 1, "h1").lastCheckedDate = clock
  /\ FindHabit(kv, 1, "h2") = MigrateHabit(NewHabit(1, "h2", 1))
  /\ FindHabit(kv, 2, "h1").skipped # <<>>

\* --------------------------------------------- days reported as completed
\* C34: for a daily habit, computeCheckHistory emits no 'completed' entry dated
\* after habit.lastCheckedDate: a day on which no check-in has been recorded yet
\* (today before the user answers, the days of a gap) is not reported completed.
C34_NoCompletedAfterLastCheck ==
  IsDaily(Stored)
    => \A i \in DOMAIN History :
         History[i].type = "completed"
           => History[i].date <= Stored.lastCheckedDate

\* ------------------------------------- check-ins of two habits in parallel
\* createHabit twice on day 0
TwoHabits ==
  [u \in Users |->
     [userId |-> u, habits |-> <<NewHabit(u, "h1", 0), NewHabit(u, "h2", 0)>>]]

InitTwoHabits ==
  /\ clock = 0
  /\ kv = TwoHabits
  /\ last = NoOp
  /\ run = RunOff
  /\ procs = NoRequests
  /\ prefs = NoPreferences

\* requests for either habit, one store access at a time, within one day
NextTwoHabits ==
  \/ \E p \in Requests, userId \in Users, habitId \in AnyHabitIds, outcome \in Outcomes :
       StartCheckIn(p, userId, habitId, outcome)
  \/ \E p \in Requests : UpdateGet(p)
  \/ \E p \in Requests : UpdateSet(p)
  \/ \E p \in Requests : ReadBack(p)

SpecTwoHabits == InitTwoHabits /\ [][NextTwoHabits]_vars

\* both requests have run to their end, each wrote, and they were for two
\* different habits of one user
BothWroteOwnHabit ==
  /\ procs[1].pc = "done" /\ procs[2].pc = "done"
  /\ procs[1].writes = 1 /\ procs[2].writes = 1
  /\ procs[1].userId = procs[2].userId
  /\ procs[1].habitId # procs[2].habitId

\* C35: when the check-ins of two different habits of one user interleave at
\* the store's get and set, neither update is lost: once both have finished,
\* each habit has lastCheckedDate = today.
C35_NeitherUpdateLost ==
  BothWroteOwnHabit
    => \A p \in Requests :
         FindHabit(kv, procs[p].userId, procs[p].habitId).lastCheckedDate
           = procs[p].today

\* ------------------------------------------------ the streak and its days
\* the date of the most recent dropped entry, or the day before creation
StreakStart ==
  IF Stored.dropped = <<>> THEN Stored.createdAt - 1
  ELSE Stored.dropped[Len(Stored.dropped)].date

\* the days after it, up to the last day checked, that were not skipped
EligibleDays ==
  {day \in (StreakStart + 1)..Stored.lastCheckedDate : day \notin SkippedDates(Stored)}

\* C36: after check-ins made one after the other with a clock that never goes
\* back, the streak is at most the number of days d, start < d <= lastCheckedDate,
\* that are not dates in skipped, where start is the date of the most recent
\* dropped entry or the day before creation; so the walk backward from today
\* in the reconstruction finds as many days as the streak.
C36_StreakWithinEligibleDays ==
  /\ Stored.streak <= Cardinality(EligibleDays)
  /\ Cardinality(RecentCompletions(Stored, Stored.createdAt,
                   MostRecentDropDate(Stored, Stored.createdAt, clock),
                   clock, Stored.streak)) = Stored.streak

\* a drop, then a streak of two with a skipped day in it: every eligible day
\* is used
C36_Witness ==
  /\ Stored.dropped # <<>>
  /\ Stored.skipped # <<>>
  /\ Stored.streak = 2
  /\ Cardinality(EligibleDays) = 2
  /\ Stored.lastCheckedDate = clock

\* -------------------------------------------- the streak shown before a drop
\* the streak of the entry that precedes entry i of the history, 0 when there
\* is none
RunningStreakBefore(i) == IF i = 1 THEN 0 ELSE History[i - 1].streak

\* C37: for a daily habit with streak > 0 reached by check-ins made one after
\* the other, the running streak just before each 'dropped' entry of the
\* history (0 if nothing precedes it since the previous drop) is that entry's
\* streakBefore, which is the streakBeforeDrop that the check-in stored.
C37_StreakBeforeMatches ==
  (IsDaily(Stored) /\ HasTargetStreak(Stored))
    => \A i \in DOMAIN History :
         History[i].type = "dropped"
           => /\ RunningStreakBefore(i) = History[i].streakBefore
              /\ History[i].streakBefore
                   = DropOn(Stored, History[i].date).streakBeforeDrop

\* two drops on record, the later one after a streak of two, and a streak again
C37_Witness ==
  /\ IsDaily(Stored)
  /\ HasTargetStreak(Stored)
  /\ Len(Stored.dropped) = 2
  /\ Stored.dropped[2].streakBeforeDrop = 2
  /\ \E i \in DOMAIN History :
       /\ History[i].type = "dropped"
       /\ History[i].streakBefore = 2
       /\ RunningStreakBefore(i) = 2

====
